---- MODULE Spec2Model ----
(***************************************************************************)
(* Model of receiver_raw (receiver_raw/receiver_raw.c), the background     *)
(* worker that receives logical changes over a replication connection and  *)
(* applies them locally, and of the wire codec it uses; and of             *)
(* hook_utility (hook_utility/hook_utility.c), the utility hook that       *)
(* restricts DROP DATABASE.                                                *)
(*                                                                         *)
(* 64-bit quantities (int64, XLogRecPtr) are tuples of four 16-bit limbs,  *)
(* most significant limb first, because the model checker's integers are   *)
(* narrower than 64 bits.  Buffers are sequences of bytes (0..255); the C  *)
(* index i of a buffer is the index i+1 of the sequence.                   *)
(***************************************************************************)
EXTENDS Integers, Sequences, FiniteSets, TLC

(* ---------------------------------------------------------------- bounds *)

\* Frames PQgetCopyData hands to the loop over a whole run.
MaxFrames == 2

\* Iterations of the outer while loop over a whole run.
MaxCycles == 2

(* ------------------------------------------------------- 64-bit values   *)

\* The 64-bit value of a small natural number n.
U64(n) == <<0, 0, n \div 65536, n % 65536>>

\* InvalidXLogRecPtr, the value output_written_lsn starts with and the
\* apply position sendFeedback reports (PostgreSQL defines it as 0).
InvalidXLogRecPtr == U64(0)

\* x > y on unsigned 64-bit values.
U64Greater(x, y) ==
  \E i \in 1..4 : x[i] > y[i] /\ \A j \in 1..(i - 1) : x[j] = y[j]

\* Variant of Max: the comparison done on int64 (signed) values.
Max_signed(x, y) ==
  LET neg(v) == v[1] >= 32768
  IN  IF neg(x) /= neg(y)
      THEN (IF neg(y) THEN x ELSE y)
      ELSE (IF U64Greater(x, y) THEN x ELSE y)

\* Max(x, y) of c.h on XLogRecPtr: ((x) > (y) ? (x) : (y)).
Max(x, y) == IF U64Greater(x, y) THEN x ELSE y

(* ------------------------------------------------------------ the codec  *)

\* Variant of htonl: no byte swap on a little-endian host.
htonl_noswap(n32) ==
  <<n32[2] % 256, n32[2] \div 256, n32[1] % 256, n32[1] \div 256>>

\* htonl(n32) followed by memcpy: the four bytes of a uint32 (two limbs),
\* most significant byte first.
htonl(n32) ==
  <<n32[1] \div 256, n32[1] % 256, n32[2] \div 256, n32[2] % 256>>

\* memcpy followed by ntohl: the uint32 (two limbs) of four bytes.
ntohl(b) == <<b[1] * 256 + b[2], b[3] * 256 + b[4]>>

\* fe_sendint64: (uint32) (i >> 32) first, then (uint32) i.
fe_sendint64(i) == htonl(<<i[1], i[2]>>) \o htonl(<<i[3], i[4]>>)

\* Variant of fe_recvint64: l32 is taken as a signed 32-bit integer, so a
\* set top bit fills the high half with ones.
fe_recvint64_signExtended(mem, pos) ==
  LET h32 == ntohl(SubSeq(mem, pos + 1, pos + 4))
      l32 == ntohl(SubSeq(mem, pos + 5, pos + 8))
  IN  IF l32[1] >= 32768
      THEN <<65535, 65535, l32[1], l32[2]>>
      ELSE <<h32[1], h32[2], l32[1], l32[2]>>

\* fe_recvint64(&mem[pos]): h32 from 4 bytes, l32 from the next 4,
\* result = (h32 << 32) | l32.
fe_recvint64(mem, pos) ==
  LET h32 == ntohl(SubSeq(mem, pos + 1, pos + 4))
      l32 == ntohl(SubSeq(mem, pos + 5, pos + 8))
  IN  <<h32[1], h32[2], l32[1], l32[2]>>

(* ------------------------------------------------------ message tags     *)

\* 'k', the keepalive tag.
TagK == 107

\* 'w', the tag of a message carrying a change.
TagW == 119

\* 'r', the tag of a Standby Status Update.
TagR == 114

(* ------------------------------------------- what the connection delivers *)

\* A 64-bit value as the origin puts it on the wire: eight bytes, most
\* significant first.
NetworkOrder64(w) ==
  <<w[1] \div 256, w[1] % 256, w[2] \div 256, w[2] % 256,
    w[3] \div 256, w[3] % 256, w[4] \div 256, w[4] % 256>>

\* Positions the origin reports: 100, 500 and 2^63 + 2^32.
Positions == {U64(100), U64(500), <<32768, 1, 0, 0>>}

\* sendTime of the frames of the origin.
ServerTime == U64(1)

\* A keepalive message: 'k', walEnd, sendTime, replyRequested.
KeepaliveMsg(walEnd, reply) ==
  <<TagK>> \o NetworkOrder64(walEnd) \o NetworkOrder64(ServerTime) \o <<reply>>

\* A message carrying a change: 'w', dataStart, walEnd, sendTime, statement.
WalDataMsg(dataStart, walEnd, payload) ==
  <<TagW>> \o NetworkOrder64(dataStart) \o NetworkOrder64(walEnd)
           \o NetworkOrder64(ServerTime) \o payload

\* Statement texts (bytes other than NUL), e.g. "I" and "UP".
Payloads == {<<73>>, <<85, 80>>}

\* The buffers PQgetCopyData can return with rc > 0 (rc is the length).
Frames ==
       {KeepaliveMsg(p, r) : p \in Positions, r \in {0, 1}}
  \cup {SubSeq(KeepaliveMsg(U64(500), 1), 1, n) : n \in {1, 9, 17}}
  \cup {WalDataMsg(U64(500), U64(500), s) : s \in Payloads \cup {<<>>}}
  \cup {SubSeq(WalDataMsg(U64(100), U64(100), <<73>>), 1, 10)}
  \cup {<<120>> \o NetworkOrder64(U64(100))}

\* Byte values found in memory past the end of a received buffer.
StrayBytes == {0, 255}

\* The memory at copybuf: the rc received bytes, the terminating NUL that
\* PQgetCopyData appends, then bytes that do not belong to the buffer.
Memory(buf, stray) == buf \o <<0>> \o [i \in 1..8 |-> stray]

\* The C string at mem + off: the bytes up to the first NUL.
RECURSIVE CString(_, _)
CString(mem, off) ==
  IF off + 1 > Len(mem) \/ mem[off + 1] = 0
  THEN <<>>
  ELSE <<mem[off + 1]>> \o CString(mem, off + 1)

\* feGetCurrentTimestamp: the clock readings of the receiver.
Times == {U64(7), <<1, 2, 3, 4>>}

\* Return values of SPI_execute.
SPIResults ==
  {"SPI_OK_INSERT", "SPI_OK_UPDATE", "SPI_OK_DELETE", "SPI_OK_UTILITY",
   "SPI_ERROR_ARGUMENT"}

\* The results for which the loop logs that the change was received.
SPISuccess == {"SPI_OK_INSERT", "SPI_OK_UPDATE", "SPI_OK_DELETE"}

(* ----------------------------------------------------------------- state *)

VARIABLES
  pc,                  \* where receiver_raw_main stands
  exitStatus,          \* argument of proc_exit, -1 while running
  exitCause,           \* which proc_exit was taken, "none" before it
  got_sigterm,
  got_sighup,
  output_written_lsn,
  output_fsync_lsn,
  copybuf,             \* buffer of the last PQgetCopyData
  rc,                  \* result of the last PQgetCopyData
  inTxn,               \* a local transaction is open
  txn,                 \* statements executed in the open transaction
  committed,           \* the committed batches, oldest first
  feedback,            \* messages handed to PQputCopyData, oldest first
  log,                 \* the last message logged
  applied,             \* every statement handed to SPI_execute, in order
  readUpTo,            \* highest C index of copybuf read for the last frame
  kaSeen,              \* walEnd of the complete keepalives processed
  cycleWal,            \* statements of the 'w' frames received this cycle
  cycleFrames,         \* frames received in this cycle
  failedAt,            \* which frame of this cycle first failed to apply, or 0
  nframes,             \* frames received so far
  ncycles,             \* iterations of the outer loop started so far
  nBegin,              \* StartTransactionCommand calls so far
  nCommit,             \* CommitTransactionCommand calls so far
  termAt,              \* where SIGTERM was delivered: <<pc, nframes, nCommit>>
  codecPc,             \* the next call of the codec exercise
  codecIn,             \* its input: a 64-bit value or eight bytes
  codecVal,            \* the int64 at hand
  codecBuf,            \* the eight-byte buffer at hand
  ProcessUtility_hook, \* the hook the backend calls for a utility statement
  prev_utility_hook,
  hook_dbname,
  hook_username,
  hookCall             \* the last call of dbrestrict_utility, if any: <<call>>

vars ==
  <<pc, exitStatus, exitCause, got_sigterm, got_sighup, output_written_lsn,
    output_fsync_lsn, copybuf, rc, inTxn, txn, committed, feedback, log,
    applied, readUpTo, kaSeen, cycleWal, cycleFrames, failedAt, nframes,
    ncycles, nBegin, nCommit, termAt, codecPc, codecIn, codecVal, codecBuf,
    ProcessUtility_hook, prev_utility_hook, hook_dbname, hook_username,
    hookCall>>

\* The variables of the codec exercise.
codecVars == <<codecPc, codecIn, codecVal, codecBuf>>

\* The variables of hook_utility.
hookVars ==
  <<ProcessUtility_hook, prev_utility_hook, hook_dbname, hook_username,
    hookCall>>

\* What receiver_raw_main and its signal handlers never touch.
otherVars == <<codecVars, hookVars>>

\* The variables of receiver_raw.
receiverVars ==
  <<pc, exitStatus, exitCause, got_sigterm, got_sighup, output_written_lsn,
    output_fsync_lsn, copybuf, rc, inTxn, txn, committed, feedback, log,
    applied, readUpTo, kaSeen, cycleWal, cycleFrames, failedAt, nframes,
    ncycles, nBegin, nCommit, termAt>>

\* The variables the loop's data handling owns.
dataVars ==
  <<output_written_lsn, output_fsync_lsn, copybuf, rc, inTxn, txn, committed,
    feedback, applied, readUpTo, kaSeen, cycleWal, cycleFrames, failedAt,
    nframes, nBegin, nCommit>>

\* No codec call is being exercised.
CodecIdle ==
  /\ codecPc = "idle"
  /\ codecIn = <<>>
  /\ codecVal = <<>>
  /\ codecBuf = <<>>

\* hook_utility as its static initializers leave it, with no hook installed
\* in the backend.
HookStatic ==
  /\ ProcessUtility_hook = "NULL"
  /\ prev_utility_hook = "NULL"
  /\ hook_dbname = "postres"
  /\ hook_username = "postgres"
  /\ hookCall = <<>>

\* The globals of receiver_raw and the locals of receiver_raw_main when the
\* worker starts.
ReceiverInit ==
  /\ pc = "connect"
  /\ exitStatus = -1
  /\ exitCause = "none"
  /\ got_sigterm = FALSE
  /\ got_sighup = FALSE
  /\ output_written_lsn = InvalidXLogRecPtr
  /\ output_fsync_lsn = InvalidXLogRecPtr
  /\ copybuf = <<>>
  /\ rc = 0
  /\ inTxn = FALSE
  /\ txn = <<>>
  /\ committed = <<>>
  /\ feedback = <<>>
  /\ log = "none"
  /\ applied = <<>>
  /\ readUpTo = -1
  /\ kaSeen = {}
  /\ cycleWal = <<>>
  /\ cycleFrames = 0
  /\ failedAt = 0
  /\ nframes = 0
  /\ ncycles = 0
  /\ nBegin = 0
  /\ nCommit = 0
  /\ termAt = <<>>

Init == ReceiverInit /\ CodecIdle /\ HookStatic

\* proc_exit(status): the process ends; nothing it holds is committed.
proc_exit(status, cause) ==
  /\ pc' = "exited"
  /\ exitStatus' = status
  /\ exitCause' = cause

(* --------------------------------------------------------------- signals *)

\* receiver_raw_sigterm
receiver_raw_sigterm ==
  /\ pc /= "exited"
  /\ ~got_sigterm
  /\ got_sigterm' = TRUE
  /\ termAt' = <<pc, nframes, nCommit>>
  /\ UNCHANGED otherVars
  /\ UNCHANGED <<pc, exitStatus, exitCause, got_sighup, log, ncycles>>
  /\ UNCHANGED dataVars

\* receiver_raw_sighup
receiver_raw_sighup ==
  /\ pc /= "exited"
  /\ UNCHANGED <<termAt, otherVars>>
  /\ ~got_sighup
  /\ got_sighup' = TRUE
  /\ UNCHANGED <<pc, exitStatus, exitCause, got_sigterm, log, ncycles>>
  /\ UNCHANGED dataVars

(* --------------------------------------------------------------- startup *)

\* PQconnectdb and the test of PQstatus.
Connect ==
  /\ pc = "connect"
  /\ UNCHANGED <<termAt, otherVars>>
  /\ \E status \in {"CONNECTION_OK", "CONNECTION_BAD"} :
       IF status /= "CONNECTION_OK"
       THEN /\ log' = "Could not establish connection to remote server"
            /\ proc_exit(1, "connection")
       ELSE /\ pc' = "start_replication"
            /\ UNCHANGED <<exitStatus, exitCause, log>>
  /\ UNCHANGED <<got_sigterm, got_sighup, ncycles>>
  /\ UNCHANGED dataVars

\* START_REPLICATION and the test of PQresultStatus.
StartReplication ==
  /\ pc = "start_replication"
  /\ UNCHANGED <<termAt, otherVars>>
  /\ \E res \in {"PGRES_COPY_BOTH", "PGRES_FATAL_ERROR", "PGRES_TUPLES_OK"} :
       IF res /= "PGRES_COPY_BOTH"
       THEN /\ log' = "Could not start logical replication"
            /\ proc_exit(1, "start_replication")
       ELSE /\ pc' = "loop"
            /\ UNCHANGED <<exitStatus, exitCause, log>>
  /\ UNCHANGED <<got_sigterm, got_sighup, ncycles>>
  /\ UNCHANGED dataVars

(* ---------------------------------------------------------- the main loop *)

\* Variant of LoopTest: the loop condition does not look at got_sigterm.
LoopTest_always ==
  /\ pc = "loop"
  /\ ncycles < MaxCycles
  /\ ncycles' = ncycles + 1
  /\ pc' = "WaitLatch"
  /\ UNCHANGED <<exitStatus, exitCause, got_sigterm, got_sighup, log, termAt,
                 otherVars>>
  /\ UNCHANGED dataVars

\* The test of while (!got_sigterm); when it fails, the proc_exit(0) after
\* the loop.
LoopTest ==
  /\ pc = "loop"
  /\ UNCHANGED <<termAt, otherVars>>
  /\ IF got_sigterm
     THEN /\ proc_exit(0, "sigterm")
          /\ UNCHANGED ncycles
     ELSE /\ ncycles < MaxCycles
          /\ ncycles' = ncycles + 1
          /\ pc' = "WaitLatch"
          /\ UNCHANGED <<exitStatus, exitCause>>
  /\ UNCHANGED <<got_sigterm, got_sighup, log>>
  /\ UNCHANGED dataVars

\* Variant of StartTransactionCommand: no transaction is begun.
StartTransactionCommand_skipped == UNCHANGED <<inTxn, nBegin>>

\* StartTransactionCommand, SPI_connect, PushActiveSnapshot: the transaction
\* of the batch is open.
StartTransactionCommand ==
  /\ inTxn' = TRUE
  /\ nBegin' = nBegin + 1

\* The return of WaitLatch, the processing of the signals, the bailout on
\* postmaster death, and the start of the transaction of the batch.
WaitLatchReturn ==
  /\ pc = "WaitLatch"
  /\ UNCHANGED <<termAt, otherVars>>
  /\ \E postmasterDeath \in BOOLEAN :
       /\ got_sighup' = FALSE
       /\ IF got_sigterm
          THEN /\ log' = "processed SIGTERM"
               /\ proc_exit(0, "sigterm")
               /\ UNCHANGED <<inTxn, nBegin>>
          ELSE IF postmasterDeath
          THEN /\ log' = (IF got_sighup THEN "processed SIGHUP" ELSE log)
               /\ proc_exit(1, "postmaster death")
               /\ UNCHANGED <<inTxn, nBegin>>
          ELSE /\ log' = (IF got_sighup THEN "processed SIGHUP" ELSE log)
               /\ StartTransactionCommand
               /\ pc' = "drain"
               /\ UNCHANGED <<exitStatus, exitCause>>
  /\ copybuf' = <<>>
  /\ cycleWal' = <<>>
  /\ cycleFrames' = 0
  /\ failedAt' = 0
  /\ UNCHANGED <<got_sigterm, output_written_lsn, output_fsync_lsn, rc, txn,
                 committed, feedback, applied, readUpTo, kaSeen, nframes,
                 ncycles, nCommit>>

\* sendFeedback: the 34 bytes of the Standby Status Update built from the
\* tracked positions and the time.
sendFeedback(written, fsync, now) ==
  <<TagR>> \o fe_sendint64(written) \o fe_sendint64(fsync)
           \o fe_sendint64(InvalidXLogRecPtr) \o fe_sendint64(now) \o <<0>>

\* Variant of ReplyRequested: the flag is ignored.
ReplyRequested_never(buf, pos) == FALSE

\* replyRequested = copybuf[pos], as the condition of the if that follows.
ReplyRequested(buf, pos) == buf[pos + 1] /= 0

\* The handling of a buffer whose first byte is 'k'.
Keepalive(buf, stray, now, sent) ==
  LET n == Len(buf)
      walEnd == fe_recvint64(Memory(buf, stray), 1)
      written == Max(walEnd, output_written_lsn)
      pos == 1 + 8 + 8
  IN  /\ output_written_lsn' = written
      /\ output_fsync_lsn' = written
      /\ IF n < pos + 1
         THEN /\ log' = "streaming header too small"
              /\ proc_exit(1, "keepalive too small")
              /\ readUpTo' = 8
              /\ UNCHANGED <<feedback, kaSeen>>
         ELSE /\ readUpTo' = pos
              /\ kaSeen' = kaSeen \cup {SubSeq(buf, 2, 9)}
              /\ IF ReplyRequested(buf, pos)
                 THEN /\ feedback' = Append(feedback,
                                            sendFeedback(written, written, now))
                      /\ IF sent
                         THEN /\ log' = "confirming write, flush"
                              /\ UNCHANGED <<pc, exitStatus, exitCause>>
                         ELSE /\ log' = "could not send feedback packet"
                              /\ proc_exit(1, "feedback")
                 ELSE UNCHANGED <<pc, exitStatus, exitCause, feedback, log>>
      /\ UNCHANGED <<inTxn, txn, applied, cycleWal, failedAt>>

\* Variant of Statement: the statement is taken one byte too far.
Statement_offByOne(buf, hdr_len) == CString(Memory(buf, 0), hdr_len + 1)

\* copybuf + hdr_len, the statement handed to SPI_execute.
Statement(buf, hdr_len) == CString(Memory(buf, 0), hdr_len)

\* Variant of AfterExecute: a result other than success ends the process.
AfterExecute_fatal(res) ==
  IF res \in SPISuccess
  THEN /\ log' = "change received correctly"
       /\ UNCHANGED <<pc, exitStatus, exitCause>>
  ELSE /\ log' = "Error when applying change"
       /\ proc_exit(1, "apply")

\* What follows SPI_execute: one message is logged, whatever the result,
\* and the receive loop goes on.
AfterExecute(res) ==
  /\ log' = CASE res = "SPI_OK_INSERT" -> "INSERT received correctly"
              [] res = "SPI_OK_UPDATE" -> "UPDATE received correctly"
              [] res = "SPI_OK_DELETE" -> "DELETE received correctly"
              [] OTHER -> "Error when applying change"
  /\ UNCHANGED <<pc, exitStatus, exitCause>>

\* Variant of WalData: the tracked positions follow the walEnd field of the
\* change.
WalData_tracksWalEnd(buf, res) ==
  LET hdr_len == 1 + 8 + 8 + 8
      stmt == Statement(buf, hdr_len)
      written == Max(fe_recvint64(Memory(buf, 0), 9), output_written_lsn)
  IN  /\ IF Len(buf) < hdr_len + 1
         THEN /\ log' = "Streaming header too small"
              /\ proc_exit(1, "waldata too small")
              /\ readUpTo' = 0
              /\ UNCHANGED <<txn, applied, cycleWal, failedAt,
                             output_written_lsn, output_fsync_lsn>>
         ELSE /\ txn' = Append(txn, stmt)
              /\ failedAt' = (IF res \notin SPISuccess /\ failedAt = 0
                              THEN cycleFrames + 1 ELSE failedAt)
              /\ applied' = Append(applied, stmt)
              /\ cycleWal' = Append(cycleWal, SubSeq(buf, hdr_len + 1, Len(buf)))
              /\ readUpTo' = Len(buf)
              /\ output_written_lsn' = written
              /\ output_fsync_lsn' = written
              /\ AfterExecute(res)
      /\ UNCHANGED <<inTxn, feedback, kaSeen>>

\* The handling of a buffer whose first byte is 'w'.
WalData(buf, res) ==
  LET hdr_len == 1 + 8 + 8 + 8
      stmt == Statement(buf, hdr_len)
  IN  /\ IF Len(buf) < hdr_len + 1
         THEN /\ log' = "Streaming header too small"
              /\ proc_exit(1, "waldata too small")
              /\ readUpTo' = 0
              /\ UNCHANGED <<txn, applied, cycleWal, failedAt>>
         ELSE /\ txn' = Append(txn, stmt)
              /\ failedAt' = (IF res \notin SPISuccess /\ failedAt = 0
                              THEN cycleFrames + 1 ELSE failedAt)
              /\ applied' = Append(applied, stmt)
              /\ cycleWal' = Append(cycleWal, SubSeq(buf, hdr_len + 1, Len(buf)))
              /\ readUpTo' = Len(buf)
              /\ AfterExecute(res)
      /\ UNCHANGED <<output_written_lsn, output_fsync_lsn, inTxn, feedback,
                     kaSeen>>

\* Variant of IncorrectHeader: the buffer is logged and skipped.
IncorrectHeader_ignored ==
  /\ log' = "Incorrect streaming header"
  /\ readUpTo' = 0
  /\ UNCHANGED <<pc, exitStatus, exitCause, output_written_lsn,
                 output_fsync_lsn, inTxn, txn, feedback, applied, kaSeen,
                 cycleWal, failedAt>>

\* The handling of a buffer whose first byte is neither 'k' nor 'w'.
IncorrectHeader ==
  /\ log' = "Incorrect streaming header"
  /\ proc_exit(1, "incorrect header")
  /\ readUpTo' = 0
  /\ UNCHANGED <<output_written_lsn, output_fsync_lsn, inTxn, txn, feedback,
                 applied, kaSeen, cycleWal, failedAt>>

\* PQgetCopyData returns a keepalive.
RecvKeepalive ==
  /\ pc = "drain"
  /\ UNCHANGED <<termAt, otherVars>>
  /\ nframes < MaxFrames
  /\ \E buf \in Frames, stray \in StrayBytes, now \in Times, sent \in BOOLEAN :
       /\ buf[1] = TagK
       /\ copybuf' = buf
       /\ rc' = Len(buf)
       /\ Keepalive(buf, stray, now, sent)
  /\ nframes' = nframes + 1
  /\ cycleFrames' = cycleFrames + 1
  /\ UNCHANGED <<got_sigterm, got_sighup, committed, ncycles, nBegin, nCommit>>

\* PQgetCopyData returns a change; it is executed.
RecvWalData ==
  /\ pc = "drain"
  /\ UNCHANGED <<termAt, otherVars>>
  /\ nframes < MaxFrames
  /\ \E buf \in Frames, res \in SPIResults :
       /\ buf[1] = TagW
       /\ copybuf' = buf
       /\ rc' = Len(buf)
       /\ WalData(buf, res)
  /\ nframes' = nframes + 1
  /\ cycleFrames' = cycleFrames + 1
  /\ UNCHANGED <<got_sigterm, got_sighup, committed, ncycles, nBegin, nCommit>>

\* Variant of RecvIncorrect: the open transaction is committed before the
\* process ends.
RecvIncorrect_commitFirst ==
  /\ pc = "drain"
  /\ UNCHANGED <<termAt, otherVars>>
  /\ nframes < MaxFrames
  /\ \E buf \in Frames :
       /\ buf[1] /= TagK
       /\ buf[1] /= TagW
       /\ copybuf' = buf
       /\ rc' = Len(buf)
       /\ IncorrectHeader
  /\ committed' = Append(committed, txn)
  /\ nCommit' = nCommit + 1
  /\ nframes' = nframes + 1
  /\ cycleFrames' = cycleFrames + 1
  /\ UNCHANGED <<got_sigterm, got_sighup, ncycles, nBegin>>

\* PQgetCopyData returns a buffer with another first byte.
RecvIncorrect ==
  /\ pc = "drain"
  /\ UNCHANGED <<termAt, otherVars>>
  /\ nframes < MaxFrames
  /\ \E buf \in Frames :
       /\ buf[1] /= TagK
       /\ buf[1] /= TagW
       /\ copybuf' = buf
       /\ rc' = Len(buf)
       /\ IncorrectHeader
  /\ nframes' = nframes + 1
  /\ cycleFrames' = cycleFrames + 1
  /\ UNCHANGED <<got_sigterm, got_sighup, committed, ncycles, nBegin, nCommit>>

\* Variant of DrainBreak: a read failure ends the process at once.
DrainBreak_failFast ==
  /\ pc = "drain"
  /\ UNCHANGED <<termAt, otherVars>>
  /\ \E r \in {0, -1, -2} :
       /\ rc' = r
       /\ IF r = -2
          THEN /\ log' = "Failure while receiving changes..."
               /\ proc_exit(1, "read failure")
          ELSE /\ pc' = "finish"
               /\ UNCHANGED <<exitStatus, exitCause, log>>
  /\ UNCHANGED <<got_sigterm, got_sighup, ncycles,
                 output_written_lsn, output_fsync_lsn, copybuf, inTxn, txn,
                 committed, feedback, applied, readUpTo, kaSeen, cycleWal,
                 cycleFrames, failedAt, nframes, nBegin, nCommit>>

\* PQgetCopyData returns 0 (nothing available), -1 (end of the copy
\* stream) or -2 (failure): the receive loop is left.
DrainBreak ==
  /\ pc = "drain"
  /\ UNCHANGED <<termAt, otherVars>>
  /\ \E r \in {0, -1, -2} : rc' = r
  /\ pc' = "finish"
  /\ UNCHANGED <<exitStatus, exitCause, got_sigterm, got_sighup, log, ncycles,
                 output_written_lsn, output_fsync_lsn, copybuf, inTxn, txn,
                 committed, feedback, applied, readUpTo, kaSeen, cycleWal,
                 cycleFrames, failedAt, nframes, nBegin, nCommit>>

\* Variant of FinishProcess: the transaction is not committed.
FinishProcess_noCommit ==
  /\ pc = "finish"
  /\ UNCHANGED <<termAt, otherVars>>
  /\ pc' = "committed"
  /\ UNCHANGED <<exitStatus, exitCause, got_sigterm, got_sighup, log, ncycles>>
  /\ UNCHANGED dataVars

\* Variant of FinishProcess: a pending SIGTERM ends the process before the
\* commit.
FinishProcess_exitOnTerm ==
  /\ pc = "finish"
  /\ IF got_sigterm
     THEN /\ proc_exit(0, "sigterm")
          /\ UNCHANGED <<committed, txn, inTxn, nCommit>>
     ELSE /\ committed' = Append(committed, txn)
          /\ txn' = <<>>
          /\ inTxn' = FALSE
          /\ nCommit' = nCommit + 1
          /\ pc' = "committed"
          /\ UNCHANGED <<exitStatus, exitCause>>
  /\ UNCHANGED <<got_sigterm, got_sighup, log, ncycles, termAt, otherVars,
                 output_written_lsn, output_fsync_lsn, copybuf, rc, feedback,
                 applied, readUpTo, kaSeen, cycleWal, cycleFrames, failedAt,
                 nframes, nBegin>>

\* SPI_finish, PopActiveSnapshot, CommitTransactionCommand.
FinishProcess ==
  /\ pc = "finish"
  /\ UNCHANGED <<termAt, otherVars>>
  /\ committed' = Append(committed, txn)
  /\ txn' = <<>>
  /\ inTxn' = FALSE
  /\ nCommit' = nCommit + 1
  /\ pc' = "committed"
  /\ UNCHANGED <<exitStatus, exitCause, got_sigterm, got_sighup, log, ncycles,
                 output_written_lsn, output_fsync_lsn, copybuf, rc, feedback,
                 applied, readUpTo, kaSeen, cycleWal, cycleFrames, failedAt,
                 nframes, nBegin>>

\* rc == 0: the computation of the timeout and the call of select.
NoData ==
  /\ pc = "committed"
  /\ UNCHANGED <<termAt, otherVars>>
  /\ rc = 0
  /\ pc' = "select"
  /\ UNCHANGED <<exitStatus, exitCause, got_sigterm, got_sighup, log, ncycles>>
  /\ UNCHANGED dataVars

\* The return of select: timeout or signal, failure, or data on the socket
\* and PQconsumeInput.
SelectReturn ==
  /\ pc = "select"
  /\ UNCHANGED <<termAt, otherVars>>
  /\ \E r \in {"timeout", "EINTR", "failure", "readable"}, consumed \in BOOLEAN :
       IF r \in {"timeout", "EINTR"}
       THEN /\ pc' = "loop"
            /\ UNCHANGED <<exitStatus, exitCause, log>>
       ELSE IF r = "failure"
       THEN /\ log' = "Incorrect status received... Leaving."
            /\ proc_exit(1, "select")
       ELSE IF ~consumed
       THEN /\ log' = "Data remaining on the socket... Leaving."
            /\ proc_exit(1, "consume input")
       ELSE /\ pc' = "loop"
            /\ UNCHANGED <<exitStatus, exitCause, log>>
  /\ UNCHANGED <<got_sigterm, got_sighup, ncycles>>
  /\ UNCHANGED dataVars

\* rc == -1: the loop is left and the proc_exit(0) after it is reached.
EndOfCopy ==
  /\ pc = "committed"
  /\ UNCHANGED <<termAt, otherVars>>
  /\ rc = -1
  /\ log' = "COPY Stream has abruptly ended..."
  /\ proc_exit(0, "end of copy")
  /\ UNCHANGED <<got_sigterm, got_sighup, ncycles>>
  /\ UNCHANGED dataVars

\* rc == -2.
ReadFailure ==
  /\ pc = "committed"
  /\ UNCHANGED <<termAt, otherVars>>
  /\ rc = -2
  /\ log' = "Failure while receiving changes..."
  /\ proc_exit(1, "read failure")
  /\ UNCHANGED <<got_sigterm, got_sighup, ncycles>>
  /\ UNCHANGED dataVars

Next ==
  \/ receiver_raw_sigterm
  \/ receiver_raw_sighup
  \/ Connect
  \/ StartReplication
  \/ LoopTest
  \/ WaitLatchReturn
  \/ RecvKeepalive
  \/ RecvWalData
  \/ RecvIncorrect
  \/ DrainBreak
  \/ FinishProcess
  \/ NoData
  \/ SelectReturn
  \/ EndOfCopy
  \/ ReadFailure

Spec == Init /\ [][Next]_vars

\* A step of receiver_raw_main, as opposed to the delivery of a signal.
ReceiverStep ==
  \/ Connect
  \/ StartReplication
  \/ LoopTest
  \/ WaitLatchReturn
  \/ RecvKeepalive
  \/ RecvWalData
  \/ RecvIncorrect
  \/ DrainBreak
  \/ FinishProcess
  \/ NoData
  \/ SelectReturn
  \/ EndOfCopy
  \/ ReadFailure

\* The process keeps running: every call returns and every wait (WaitLatch
\* with its 1 s timeout, select with its timeout of at least 1 s) ends.
FairSpec == Init /\ [][Next]_vars /\ WF_vars(ReceiverStep)

(* ------------------------------------------------------ the codec alone  *)

\* Limbs of the 64-bit values the codec is exercised on.
CodecLimbs == {0, 258, 32768, 65535}

\* Bytes of the buffers the codec is exercised on.
CodecBytes == {0, 1, 255}

\* The int64 arguments of fe_sendint64.
CodecValues == [1..4 -> CodecLimbs]

\* The eight bytes at the argument of fe_recvint64: sampled bytes, and the
\* position and time fields of the keepalives of the origin.
CodecBuffers ==
  [1..8 -> CodecBytes]
    \cup {SubSeq(KeepaliveMsg(p, 1), 2, 9) : p \in Positions}
    \cup {SubSeq(KeepaliveMsg(p, 1), 10, 17) : p \in Positions}

\* Either an int64 to send and receive back, or eight bytes to receive and
\* send back.
CodecInit ==
  /\ ReceiverInit
  /\ HookStatic
  /\ \/ \E v \in CodecValues :
          /\ codecIn = v
          /\ codecVal = v
          /\ codecBuf = <<>>
          /\ codecPc = "send"
     \/ \E b \in CodecBuffers :
          /\ codecIn = b
          /\ codecVal = <<>>
          /\ codecBuf = b
          /\ codecPc = "recv"

\* The call fe_sendint64(codecVal, codecBuf).
CodecSend ==
  /\ codecPc = "send"
  /\ codecBuf' = fe_sendint64(codecVal)
  /\ codecPc' = IF Len(codecIn) = 4 THEN "recv" ELSE "done"
  /\ UNCHANGED <<codecIn, codecVal, receiverVars, hookVars>>

\* The call codecVal = fe_recvint64(codecBuf).
CodecRecv ==
  /\ codecPc = "recv"
  /\ codecVal' = fe_recvint64(codecBuf, 0)
  /\ codecPc' = IF Len(codecIn) = 8 THEN "send" ELSE "done"
  /\ UNCHANGED <<codecIn, codecBuf, receiverVars, hookVars>>

CodecNext == CodecSend \/ CodecRecv

CodecSpec == CodecInit /\ [][CodecNext]_vars

(* ----------------------------------------------------------- hook_utility *)

\* Node tags of utility statements.
NodeTags == {"T_DropdbStmt", "T_CreatedbStmt", "T_VacuumStmt"}

\* Database names: the boot value of hook_utility.dbname, the static
\* initializer of hook_dbname, and another database.
DbNames == {"postgres", "postres", "appdb"}

\* User names.
UserNames == {"postgres", "alice"}

\* Utility statements: the node tag and the dbname field.
UtilityStmts == [tag : NodeTags, dbname : DbNames]

\* Before the library is loaded: the static initializers, and the hook
\* another library may have installed in the backend.
HookInit ==
  /\ ReceiverInit
  /\ CodecIdle
  /\ ProcessUtility_hook \in {"NULL", "other_hook"}
  /\ prev_utility_hook = "NULL"
  /\ hook_dbname = "postres"
  /\ hook_username = "postgres"
  /\ hookCall = <<>>

\* load_params: the two custom variables take their configured values
\* (the boot value of both is "postgres").
load_params ==
  \E db \in DbNames, user \in UserNames :
    /\ hook_dbname' = db
    /\ hook_username' = user

\* _PG_init
_PG_init ==
  /\ ProcessUtility_hook /= "dbrestrict_utility"
  /\ prev_utility_hook' = ProcessUtility_hook
  /\ ProcessUtility_hook' = "dbrestrict_utility"
  /\ load_params
  /\ UNCHANGED <<hookCall, receiverVars, codecVars>>

\* _PG_fini
_PG_fini ==
  /\ ProcessUtility_hook = "dbrestrict_utility"
  /\ ProcessUtility_hook' = prev_utility_hook
  /\ UNCHANGED <<prev_utility_hook, hook_dbname, hook_username, hookCall,
                 receiverVars, codecVars>>

\* strcmp(a, b) == 0
StrEqual(a, b) == a = b

\* Variant of Forbidden: either test alone raises the error.
Forbidden_either(stmt, username) ==
  /\ stmt.tag = "T_DropdbStmt"
  /\ (StrEqual(stmt.dbname, hook_dbname) \/ ~StrEqual(username, hook_username))

\* The switch of dbrestrict_utility: the condition of its ereport(ERROR).
Forbidden(stmt, username) ==
  /\ stmt.tag = "T_DropdbStmt"
  /\ StrEqual(stmt.dbname, hook_dbname)
  /\ ~StrEqual(username, hook_username)

\* dbrestrict_utility, called by the backend for a utility statement of the
\* current user: the error, or the call of the next handler.
dbrestrict_utility ==
  /\ ProcessUtility_hook = "dbrestrict_utility"
  /\ \E stmt \in UtilityStmts, username \in UserNames :
       hookCall' =
         IF Forbidden(stmt, username)
         THEN <<[stmt |-> stmt, username |-> username,
                 error |-> "ERRCODE_INSUFFICIENT_PRIVILEGE",
                 handlers |-> <<>>]>>
         ELSE <<[stmt |-> stmt, username |-> username,
                 error |-> "none",
                 handlers |-> <<[handler |-> IF prev_utility_hook /= "NULL"
                                            THEN prev_utility_hook
                                            ELSE "standard_ProcessUtility",
                                 stmt |-> stmt]>>]>>
  /\ UNCHANGED <<ProcessUtility_hook, prev_utility_hook, hook_dbname,
                 hook_username, receiverVars, codecVars>>

HookNext == _PG_init \/ dbrestrict_utility \/ _PG_fini

HookSpec == HookInit /\ [][HookNext]_vars

(* ------------------------------------------------------------ properties *)

\* The 64-bit value of eight bytes in network order.
WireValue(b) ==
  <<b[1] * 256 + b[2], b[3] * 256 + b[4], b[5] * 256 + b[6], b[7] * 256 + b[8]>>

\* m is the greatest element of S (unsigned order).
IsMaxOf(m, S) == m \in S /\ \A x \in S : ~U64Greater(x, m)

\* The positions of the complete keepalives processed so far.
KeepalivePositions == {WireValue(b) : b \in kaSeen}

\* A step in which the loop processes a complete keepalive.
KeepaliveStep ==
  /\ nframes' = nframes + 1
  /\ copybuf'[1] = TagK
  /\ Len(copybuf') >= 1 + 8 + 8 + 1

\* The write and flush fields of a feedback message.
MsgWrite(m) == SubSeq(m, 2, 9)
MsgFlush(m) == SubSeq(m, 10, 17)
MsgApply(m) == SubSeq(m, 18, 25)
MsgTime(m) == SubSeq(m, 26, 33)

\* C1: after each keepalive is processed, the tracked written position is
\* the maximum of the positions of all keepalives processed so far and the
\* tracked flushed position equals it; the written position never decreases.
C1_PositionTracking ==
  [][/\ KeepaliveStep =>
          /\ IsMaxOf(output_written_lsn', KeepalivePositions')
          /\ output_fsync_lsn' = output_written_lsn'
     /\ ~U64Greater(output_written_lsn, output_written_lsn')]_vars

\* C1 witness: keepalives at 2^63 + 2^32 and then at 100 have been processed;
\* the tracked positions are still the larger one.
C1_Witness ==
  /\ kaSeen = {NetworkOrder64(<<32768, 1, 0, 0>>), NetworkOrder64(U64(100))}
  /\ copybuf = KeepaliveMsg(U64(100), 0)
  /\ output_written_lsn = <<32768, 1, 0, 0>>
  /\ output_fsync_lsn = <<32768, 1, 0, 0>>

\* C2: a step that processes a complete keepalive whose reply flag is set
\* hands exactly one feedback message to the connection, within that step,
\* carrying write = flush = the maximum position of the keepalives processed
\* so far; the positions of successive feedback messages never decrease.
C2_OnDemandFeedback ==
  [][/\ (KeepaliveStep /\ copybuf'[18] /= 0) =>
          /\ Len(feedback') = Len(feedback) + 1
          /\ SubSeq(feedback', 1, Len(feedback)) = feedback
          /\ LET m == feedback'[Len(feedback')]
             IN  /\ IsMaxOf(WireValue(MsgWrite(m)), KeepalivePositions')
                 /\ MsgFlush(m) = MsgWrite(m)
     /\ \A i \in 1..(Len(feedback') - 1) :
          ~U64Greater(WireValue(MsgWrite(feedback'[i])),
                      WireValue(MsgWrite(feedback'[i + 1])))]_vars

\* C2 witness: Keepalive(pos=500, reply) was the first frame and one
\* feedback message with write = flush = 500 has been sent.
C2_Witness ==
  /\ nframes = 1
  /\ copybuf = KeepaliveMsg(U64(500), 1)
  /\ Len(feedback) = 1
  /\ WireValue(MsgWrite(feedback[1])) = U64(500)
  /\ WireValue(MsgFlush(feedback[1])) = U64(500)

\* The layout of a feedback message with the given bytes in its apply field.
FeedbackLayout(m, applyBytes) ==
  /\ Len(m) = 34
  /\ m[1] = TagR
  /\ MsgApply(m) = applyBytes
  /\ MsgTime(m) \in {NetworkOrder64(t) : t \in Times}
  /\ m[34] = 0

\* C3 as stated: every feedback message is 34 bytes, 'r', write, flush, an
\* apply field holding -1 (eight bytes 255), the time, and a final 0.
C3_Original ==
  \A i \in DOMAIN feedback :
    FeedbackLayout(feedback[i], <<255, 255, 255, 255, 255, 255, 255, 255>>)

\* C3 amended: every feedback message is 34 bytes: 'r', the tracked written
\* and flushed positions in network order, an apply field holding
\* InvalidXLogRecPtr (eight bytes 0), the time in network order, and a
\* final 0.
C3_FeedbackLayout ==
  /\ [](\A i \in DOMAIN feedback :
          FeedbackLayout(feedback[i], <<0, 0, 0, 0, 0, 0, 0, 0>>))
  /\ [][feedback' /= feedback =>
          LET m == feedback'[Len(feedback')]
          IN  /\ MsgWrite(m) = NetworkOrder64(output_written_lsn')
              /\ MsgFlush(m) = NetworkOrder64(output_fsync_lsn')]_vars

\* C3 witness: with written = flushed = 100 and the time 7 the message is
\* these 34 bytes.
C3_Witness ==
  /\ feedback /= <<>>
  /\ output_written_lsn = U64(100)
  /\ output_fsync_lsn = U64(100)
  /\ feedback[Len(feedback)] =
       <<114, 0, 0, 0, 0, 0, 0, 0, 100, 0, 0, 0, 0, 0, 0, 0, 100,
         0, 0, 0, 0, 0, 0, 0, 0, 0, 0, 0, 0, 0, 0, 0, 7, 0>>

\* C4 as stated: a 'w' buffer of exactly 1 + 8 + 8 + 8 bytes is not an
\* error: the session never exits as "header too small" on a buffer that
\* holds the whole header.
C4_EmptyPayloadAccepted ==
  exitCause = "waldata too small" => Len(copybuf) < 1 + 8 + 8 + 8

\* The buffer is shorter than the fixed header of its tag.
ShortFrame(buf) ==
  \/ buf[1] = TagK /\ Len(buf) < 1 + 8 + 8 + 1
  \/ buf[1] = TagW /\ Len(buf) < 1 + 8 + 8 + 8

\* C5 as stated: once a buffer shorter than the fixed header of its tag has
\* been received, the session has exited with status 1 and no byte at an
\* index at or beyond the received length has been read.
C5_TruncatedFrames ==
  (copybuf /= <<>> /\ ShortFrame(copybuf)) =>
     /\ pc = "exited"
     /\ exitStatus = 1
     /\ readUpTo < Len(copybuf)

\* C6: a step that receives a buffer whose first byte is neither 'k' nor 'w'
\* logs the protocol error and exits with status 1, applies no statement and
\* sends no feedback; nothing happens after that exit.
C6_UnknownTag ==
  /\ [][(nframes' = nframes + 1 /\ copybuf'[1] \notin {TagK, TagW}) =>
          /\ pc' = "exited"
          /\ exitStatus' = 1
          /\ log' = "Incorrect streaming header"
          /\ UNCHANGED <<txn, applied, committed, feedback,
                         output_written_lsn, output_fsync_lsn>>]_vars
  /\ [][exitCause = "incorrect header" => UNCHANGED vars]_vars

\* C6 witness: the session has exited with status 1 on an unknown tag that
\* followed an applied statement.
C6_Witness ==
  /\ pc = "exited"
  /\ exitStatus = 1
  /\ exitCause = "incorrect header"
  /\ copybuf[1] = 120
  /\ nframes = 2
  /\ Len(applied) = 1

\* The statements of a sequence of batches, in order.
RECURSIVE Flatten(_)
Flatten(batches) ==
  IF batches = <<>> THEN <<>> ELSE Head(batches) \o Flatten(Tail(batches))

\* C7: whenever the session is blocked in WaitLatch or in select, no local
\* transaction is open, every statement applied so far is committed, and
\* every cycle that reached select has committed.
C7_CommitBeforeBlocking ==
  /\ pc \in {"WaitLatch", "select"} =>
       /\ ~inTxn
       /\ txn = <<>>
       /\ nBegin = nCommit
       /\ applied = Flatten(committed)
  /\ pc = "select" => nCommit = ncycles

\* C7 witness: the session is blocked in select after a cycle that applied
\* two statements.
C7_Witness ==
  /\ pc = "select"
  /\ Len(applied) = 2
  /\ Len(committed) = 1

\* C8: a cycle whose receive loop ended has begun exactly one transaction
\* and committed exactly once, and the committed batch is the payloads of
\* the 'w' frames of the cycle in arrival order; transactions do not nest
\* and are open only while the cycle drains.
C8_OneCommitPerCycle ==
  /\ nBegin - nCommit = (IF inTxn THEN 1 ELSE 0)
  /\ Len(committed) = nCommit
  /\ inTxn => pc \in {"drain", "finish", "exited"}
  /\ pc \in {"drain", "finish"} => (inTxn /\ nBegin = ncycles)
  /\ pc \in {"committed", "select"} =>
       /\ nBegin = ncycles
       /\ nCommit = ncycles
       /\ committed[Len(committed)] = cycleWal

\* C8 witness: one 'w' frame with payload "I", then nothing available: the
\* batch of exactly that statement is committed and the session is in select.
C8_Witness ==
  /\ pc = "select"
  /\ nframes = 1
  /\ copybuf = WalDataMsg(U64(500), U64(500), <<73>>)
  /\ committed = << <<(<<73>>)>> >>

\* C9: a step in which SPI_execute returns something other than insert,
\* update or delete success keeps the session draining with the statement in
\* the open transaction, and the commit that ends the cycle commits the
\* whole batch, the failed statement included.
C9_ApplyFailureNonFatal ==
  /\ [][(applied' /= applied /\ log' = "Error when applying change") =>
          /\ pc' = "drain"
          /\ exitStatus' = -1
          /\ inTxn'
          /\ txn' = Append(txn, applied'[Len(applied')])]_vars
  /\ [][(pc = "finish" /\ pc' /= "finish" /\ failedAt /= 0) =>
          /\ committed' = Append(committed, txn)
          /\ committed'[Len(committed')] = cycleWal
          /\ Len(cycleWal) >= 1]_vars

\* C9 witness: the first statement of a cycle failed, a second frame was
\* still processed, and both statements were committed.
C9_Witness ==
  /\ pc = "committed"
  /\ failedAt = 1
  /\ cycleFrames = 2
  /\ Len(committed[Len(committed)]) = 2

\* The proc_exit calls that report a fatal condition.
FatalCauses ==
  {"connection", "start_replication", "postmaster death",
   "keepalive too small", "feedback", "incorrect header", "waldata too small",
   "select", "consume input", "read failure"}

\* The session stopped on a fatal condition: one of the fatal exits, and for
\* the two "header too small" exits a buffer that is in fact shorter than the
\* fixed header of its tag.
FatalCondition ==
  /\ exitCause \in FatalCauses
  /\ exitCause \in {"keepalive too small", "waldata too small"} =>
       ShortFrame(copybuf)

\* C10 as stated: the exit status is 0 exactly for a termination signal or
\* the end of the copy stream and 1 exactly for a fatal condition (a
\* truncated header among them); nothing happens after the exit.
C10_ExitStatus ==
  /\ [](/\ pc /= "exited" => (exitStatus = -1 /\ exitCause = "none")
        /\ pc = "exited" =>
             /\ exitStatus \in {0, 1}
             /\ exitStatus = 0 <=> exitCause \in {"sigterm", "end of copy"}
             /\ exitStatus = 1 <=> FatalCondition)
  /\ [][pc = "exited" => UNCHANGED vars]_vars

\* SIGTERM was delivered while the session was blocked in select.
TermInSelect == termAt /= <<>> /\ termAt[1] = "select"

\* C11 as stated: when SIGTERM arrives during the select wait, the session
\* exits with status 0.
C11_Original ==
  (TermInSelect /\ pc = "exited") => exitStatus = 0

\* C11 amended: when SIGTERM arrives during the select wait, the return of
\* select is followed at once by the loop test, which exits with status 0,
\* unless select or PQconsumeInput fails at that return, which exits with
\* status 1; in either case no further frame is decoded, no statement is
\* applied, no feedback is sent and no transaction is opened.
C11_TermDuringSelect ==
  /\ [](TermInSelect =>
          /\ pc \in {"select", "loop", "exited"}
          /\ pc = "exited" =>
               \/ exitStatus = 0 /\ exitCause = "sigterm"
               \/ exitStatus = 1 /\ exitCause \in {"select", "consume input"}
          /\ nframes = termAt[2]
          /\ nCommit = termAt[3]
          /\ ~inTxn)
  /\ [][TermInSelect =>
          UNCHANGED <<nframes, copybuf, applied, txn, feedback, nBegin,
                      committed>>]_vars

\* C11 witness: SIGTERM arrived in the select that followed a cycle with one
\* applied statement, and the session has exited with status 0.
C11_Witness ==
  /\ TermInSelect
  /\ pc = "exited"
  /\ exitStatus = 0
  /\ Len(applied) = 1
  /\ nBegin = 1

\* SIGTERM was delivered while a drain cycle was in progress.
TermInCycle == termAt /= <<>> /\ termAt[1] \in {"drain", "finish"}

\* C12: a SIGTERM delivered while a drain cycle is in progress does not end
\* the cycle: the session leaves the receive loop only as it does without
\* the signal, the commit that ends the cycle commits its batch, and no
\* further transaction is begun afterwards.
C12_FinishBatchThenStop ==
  /\ [][(TermInCycle /\ pc \in {"drain", "finish"}) =>
          /\ exitCause' /= "sigterm"
          /\ pc' \in {"drain", "finish", "committed", "exited"}
          /\ (pc = "finish" /\ pc' /= "finish") =>
               /\ pc' = "committed"
               /\ committed' = Append(committed, txn)
               /\ nCommit' = nCommit + 1]_vars
  /\ [][got_sigterm => nBegin' = nBegin]_vars
  /\ [](TermInCycle => (nBegin = termAt[3] + 1 /\ nCommit <= termAt[3] + 1))

\* C12 witness: SIGTERM arrived after the first of two statements of a
\* cycle; both were committed and the session then exited on the signal
\* without another cycle.
C12_Witness ==
  /\ TermInCycle
  /\ termAt[2] = 1
  /\ nframes = 2
  /\ pc = "exited"
  /\ exitCause = "sigterm"
  /\ nBegin = 1
  /\ nCommit = 1
  /\ Len(committed[1]) = 2

\* C13: the session acknowledges periodically as well as on demand: by the
\* end of the second drain cycle of a session that has applied a change and
\* is going back to the select wait, a feedback message has been sent, also
\* when no keepalive asked for a reply.
C13_PeriodicFeedback ==
  (pc = "committed" /\ rc = 0 /\ ncycles >= 2 /\ applied /= <<>>) =>
    feedback /= <<>>

\* C15: every feedback message is sent while the transaction of the current
\* drain cycle is open; the step that sends it is the processing of a
\* keepalive and commits nothing, so the statements applied earlier in the
\* cycle are still uncommitted when the message leaves.
C15_FeedbackInsideTransaction ==
  [][feedback' /= feedback =>
       /\ pc = "drain"
       /\ inTxn /\ inTxn'
       /\ copybuf'[1] = TagK
       /\ Len(feedback') = Len(feedback) + 1
       /\ nBegin' = nCommit' + 1
       /\ UNCHANGED <<nCommit, committed, txn>>
       /\ Flatten(committed') \o txn' = applied']_vars

\* C15 witness: a statement was applied, then a keepalive with position 500
\* asked for a reply; the feedback acknowledging 500 has been sent and the
\* statement is not committed.
C15_Witness ==
  /\ pc = "drain"
  /\ inTxn
  /\ Len(txn) = 1
  /\ committed = <<>>
  /\ copybuf = KeepaliveMsg(U64(500), 1)
  /\ Len(feedback) = 1
  /\ WireValue(MsgWrite(feedback[1])) = U64(500)
  /\ output_written_lsn = U64(500)

\* C16: a step that changes the tracked written or flushed position is the
\* processing of a keepalive; so the processing of a change, the commit, the
\* waits and the handling of SIGHUP leave both positions as they are.
C16_PositionsOnlyOnKeepalive ==
  [][<<output_written_lsn, output_fsync_lsn>>' /=
       <<output_written_lsn, output_fsync_lsn>> =>
         /\ pc = "drain"
         /\ nframes' = nframes + 1
         /\ copybuf'[1] = TagK]_vars

\* C16 witness: after a keepalive with position 100, a change whose
\* dataStart and walEnd are 500 was applied and committed, and the tracked
\* positions are still 100.
C16_Witness ==
  /\ pc = "committed"
  /\ nframes = 2
  /\ copybuf = WalDataMsg(U64(500), U64(500), <<73>>)
  /\ Len(committed) = 1
  /\ output_written_lsn = U64(100)
  /\ output_fsync_lsn = U64(100)

\* The fatal conditions found while draining.
MidDrainFatal ==
  {"incorrect header", "keepalive too small", "waldata too small", "feedback"}

C18_ReadFailureCommitsFirst ==
  exitCause = "read failure" =>
    /\ pc = "exited"
    /\ exitStatus = 1
    /\ rc = -2
    /\ ~inTxn
    /\ txn = <<>>
    /\ nCommit = nBegin
    /\ Len(committed) = nCommit
    /\ Flatten(committed) = applied
    /\ log = "Failure while receiving changes..."

\* C18 witness: two statements were applied, PQgetCopyData then failed, and
\* the session has exited with both statements in the committed batch.
C18_Witness ==
  /\ exitCause = "read failure"
  /\ Len(committed) = 1
  /\ Len(committed[1]) = 2
  /\ Len(applied) = 2

\* C14: fe_recvint64 of the eight bytes written by fe_sendint64(v) is v, and
\* those bytes are v most significant byte first; fe_sendint64 of the value
\* fe_recvint64 reads from eight bytes b writes b again, and that value is
\* the big-endian reading of b.  The position and time fields of the
\* keepalives are among the b.
C14_CodecRoundTrip ==
  /\ (codecPc = "recv" /\ Len(codecIn) = 4) =>
       codecBuf = NetworkOrder64(codecIn)
  /\ (codecPc = "send" /\ Len(codecIn) = 8) =>
       codecVal = WireValue(codecIn)
  /\ codecPc = "done" =>
       IF Len(codecIn) = 4
       THEN codecVal = codecIn /\ codecBuf = NetworkOrder64(codecIn)
       ELSE codecBuf = codecIn /\ codecVal = WireValue(codecIn)

\* C14 witness: the position field of the keepalive at 2^63 + 2^32 was
\* decoded to that value and encoded back to the same eight bytes.
C14_Witness ==
  /\ codecPc = "done"
  /\ codecIn = SubSeq(KeepaliveMsg(<<32768, 1, 0, 0>>, 1), 2, 9)
  /\ codecIn = <<128, 0, 0, 1, 0, 0, 0, 0>>
  /\ codecVal = <<32768, 1, 0, 0>>
  /\ codecBuf = codecIn

\* C20: a call of dbrestrict_utility raises ERRCODE_INSUFFICIENT_PRIVILEGE
\* and calls no handler exactly when the statement is DROP DATABASE, its
\* dbname is hook_dbname and the current user is not hook_username; every
\* other call raises nothing and hands the same statement to one handler,
\* the hook saved by _PG_init if there is one and standard_ProcessUtility
\* otherwise.
C20_DdlRestriction ==
  [][(hookCall' /= hookCall /\ ProcessUtility_hook' = ProcessUtility_hook) =>
       LET c == hookCall'[1]
           restricted == /\ c.stmt.tag = "T_DropdbStmt"
                         /\ c.stmt.dbname = hook_dbname
                         /\ c.username /= hook_username
       IN  /\ Len(hookCall') = 1
           /\ restricted <=>
                (c.error = "ERRCODE_INSUFFICIENT_PRIVILEGE" /\ c.handlers = <<>>)
           /\ ~restricted =>
                /\ c.error = "none"
                /\ Len(c.handlers) = 1
                /\ c.handlers[1].stmt = c.stmt
                /\ c.handlers[1].handler =
                     IF prev_utility_hook = "NULL"
                     THEN "standard_ProcessUtility"
                     ELSE prev_utility_hook]_vars

\* C20 witness: with the boot values and a hook installed before, alice's
\* DROP DATABASE postgres was refused and no handler was called.
C20_Witness ==
  /\ ProcessUtility_hook = "dbrestrict_utility"
  /\ prev_utility_hook = "other_hook"
  /\ hook_dbname = "postgres"
  /\ hook_username = "postgres"
  /\ hookCall /= <<>>
  /\ hookCall[1].stmt = [tag |-> "T_DropdbStmt", dbname |-> "postgres"]
  /\ hookCall[1].username = "alice"
  /\ hookCall[1].error = "ERRCODE_INSUFFICIENT_PRIVILEGE"
  /\ hookCall[1].handlers = <<>>

\* C19: once SIGTERM has been delivered the session eventually exits; it
\* exits with status 0 unless a fatal condition occurred first; and at most
\* one commit follows the signal.
C19_TerminationLiveness ==
  /\ got_sigterm ~> pc = "exited"
  /\ []((got_sigterm /\ pc = "exited") => (exitStatus = 0 \/ FatalCondition))
  /\ [](termAt /= <<>> => nCommit <= termAt[3] + 1)

====
